---------------------------- MODULE Spec2Model ----------------------------
(***************************************************************************)
(* Model of src/loan_cul.py: calculate_monthly_payment and                 *)
(* calculate_amortization_schedule (level-payment loan schedule with an    *)
(* optional bonus track), and the total that main derives from them.       *)
(*                                                                         *)
(* Numbers.  The amounts of the program are Python floats, i.e. IEEE-754   *)
(* binary64 values.  They are modelled bit for bit: a float is a record    *)
(* [sg, m, e] of value sg * m * 2^e with a 53-bit mantissa m, and +, -, *, *)
(* / are the exact operation followed by round-to-nearest-even, which is   *)
(* what CPython does.  The mantissa does not fit TLC's 32-bit integers, so *)
(* it is a little-endian sequence of 15-bit limbs.  Only ** goes through   *)
(* the C library's pow, whose last bit is not specified: its result is a   *)
(* nondeterministic choice between the two floats that bracket the exact   *)
(* power.  Python ints (principal, years, ...) stay integers until the     *)
(* code mixes them with a float.                                           *)
(***************************************************************************)
EXTENDS Integers, Sequences, FiniteSets, TLC

---------------------------------------------------------------------------
(* Natural numbers of arbitrary size: little-endian limbs, no leading zero *)
(* limb, zero is the empty sequence.                                       *)

LimbBits == 15
Base == 2 ^ LimbBits

Limb(a, i) == IF i <= Len(a) THEN a[i] ELSE 0

RECURSIVE Trim(_)
Trim(a) ==
  IF a = <<>> THEN a
  ELSE IF a[Len(a)] = 0 THEN Trim(SubSeq(a, 1, Len(a) - 1)) ELSE a

RECURSIVE NFromInt(_)
NFromInt(n) == IF n = 0 THEN <<>> ELSE <<n % Base>> \o NFromInt(n \div Base)

RECURSIVE AddC(_, _, _, _)
AddC(a, b, i, c) ==
  IF i > Len(a) /\ i > Len(b)
  THEN (IF c = 0 THEN <<>> ELSE <<c>>)
  ELSE LET s == Limb(a, i) + Limb(b, i) + c
       IN  <<s % Base>> \o AddC(a, b, i + 1, s \div Base)

NAdd(a, b) == AddC(a, b, 1, 0)

RECURSIVE SubC(_, _, _, _)
SubC(a, b, i, c) ==
  IF i > Len(a) THEN <<>>
  ELSE LET s == a[i] - Limb(b, i) - c
       IN  IF s < 0 THEN <<s + Base>> \o SubC(a, b, i + 1, 1)
                    ELSE <<s>> \o SubC(a, b, i + 1, 0)

\* a - b for a >= b
NSub(a, b) == Trim(SubC(a, b, 1, 0))

RECURSIVE CmpFrom(_, _, _)
CmpFrom(a, b, i) ==
  IF i = 0 THEN 0
  ELSE IF a[i] < b[i] THEN -1
  ELSE IF a[i] > b[i] THEN 1
  ELSE CmpFrom(a, b, i - 1)

\* -1, 0, 1 as a < b, a = b, a > b
NCmp(a, b) ==
  IF Len(a) < Len(b) THEN -1
  ELSE IF Len(a) > Len(b) THEN 1
  ELSE CmpFrom(a, b, Len(a))

RECURSIVE MulC(_, _, _, _)
MulC(a, k, i, c) ==
  IF i > Len(a) THEN (IF c = 0 THEN <<>> ELSE <<c>>)
  ELSE LET p == a[i] * k + c
       IN  <<p % Base>> \o MulC(a, k, i + 1, p \div Base)

\* a * k for one limb k
NMulS(a, k) == IF k = 0 THEN <<>> ELSE MulC(a, k, 1, 0)

NShlL(a, n) == IF a = <<>> THEN a ELSE [i \in 1..n |-> 0] \o a

RECURSIVE MulAcc(_, _, _)
MulAcc(a, b, j) ==
  IF j > Len(b) THEN <<>>
  ELSE NAdd(NShlL(NMulS(a, b[j]), j - 1), MulAcc(a, b, j + 1))

NMul(a, b) == MulAcc(a, b, 1)

BitLen(x) == CHOOSE k \in 0..LimbBits : (k = 0 \/ x >= 2 ^ (k - 1)) /\ x < 2 ^ k

NBits(a) == IF a = <<>> THEN 0 ELSE (Len(a) - 1) * LimbBits + BitLen(a[Len(a)])

\* a * 2^k
NShl(a, k) == NMulS(NShlL(a, k \div LimbBits), 2 ^ (k % LimbBits))

\* floor(a / 2^k)
NShr(a, k) ==
  LET l == k \div LimbBits
      r == k % LimbBits
      t == IF l >= Len(a) THEN <<>> ELSE SubSeq(a, l + 1, Len(a))
  IN  IF r = 0 THEN t
      ELSE Trim([i \in 1..Len(t) |->
                   (t[i] \div 2 ^ r) + (Limb(t, i + 1) % 2 ^ r) * 2 ^ (LimbBits - r)])

NOdd(a) == a # <<>> /\ a[1] % 2 = 1

RECURSIVE DigitSearch(_, _, _, _)
\* the largest d in lo..hi with b * d <= r (b * lo <= r is given)
DigitSearch(r, b, lo, hi) ==
  IF lo = hi THEN lo
  ELSE LET mid == (lo + hi + 1) \div 2
       IN  IF NCmp(NMulS(b, mid), r) <= 0
           THEN DigitSearch(r, b, mid, hi)
           ELSE DigitSearch(r, b, lo, mid - 1)

RECURSIVE DivFrom(_, _, _, _)
\* long division of the limbs a[1..i] with the running remainder r (< b)
DivFrom(a, b, i, r) ==
  IF i = 0 THEN [q |-> <<>>, r |-> r]
  ELSE LET cur  == Trim(<<a[i]>> \o r)
           d    == DigitSearch(cur, b, 0, Base - 1)
           rest == DivFrom(a, b, i - 1, NSub(cur, NMulS(b, d)))
       IN  [q |-> rest.q \o <<d>>, r |-> rest.r]

\* quotient and remainder of a by b # 0
NDivMod(a, b) == LET x == DivFrom(a, b, Len(a), <<>>) IN [q |-> Trim(x.q), r |-> x.r]

---------------------------------------------------------------------------
(* Python floats (binary64).  A nonzero float has sg in {1, -1} and a      *)
(* mantissa m with 2^52 <= m < 2^53; its value is sg * m * 2^e.  Zero has  *)
(* the empty mantissa (the sign of a zero is not kept: -0.0 == 0.0).       *)

MantBits == 53

Zero == [sg |-> 1, m |-> <<>>, e |-> 0]

IsZero(x) == x.m = <<>>

\* the float nearest to sg * N * 2^E, ties to the even mantissa
Round(sg, N, E) ==
  LET L == NBits(N)
  IN  IF N = <<>> THEN Zero
      ELSE IF L <= MantBits
      THEN [sg |-> sg, m |-> NShl(N, MantBits - L), e |-> E - (MantBits - L)]
      ELSE LET d    == L - MantBits
               q    == NShr(N, d)
               r    == NSub(N, NShl(q, d))
               c    == NCmp(r, NShl(<<1>>, d - 1))
               q1   == IF c > 0 \/ (c = 0 /\ NOdd(q)) THEN NAdd(q, <<1>>) ELSE q
           IN  IF NBits(q1) > MantBits
               THEN [sg |-> sg, m |-> NShr(q1, 1), e |-> E + d + 1]
               ELSE [sg |-> sg, m |-> q1, e |-> E + d]

\* the largest float <= N * 2^E (N > 0)
RoundDown(N, E) ==
  LET L == NBits(N)
  IN  IF L <= MantBits
      THEN [sg |-> 1, m |-> NShl(N, MantBits - L), e |-> E - (MantBits - L)]
      ELSE [sg |-> 1, m |-> NShr(N, L - MantBits), e |-> E + L - MantBits]

\* the next float above x (x > 0)
Succ(x) ==
  LET m1 == NAdd(x.m, <<1>>)
  IN  IF NBits(m1) > MantBits THEN [sg |-> 1, m |-> NShr(m1, 1), e |-> x.e + 1]
      ELSE [sg |-> 1, m |-> m1, e |-> x.e]

\* the smallest float >= N * 2^E (N > 0)
RoundUp(N, E) ==
  LET d == RoundDown(N, E)
      L == NBits(N)
  IN  IF L <= MantBits \/ NShl(d.m, L - MantBits) = N THEN d ELSE Succ(d)

\* int -> float (exact below 2^53)
FromInt(n) == IF n < 0 THEN Round(-1, NFromInt(-n), 0) ELSE Round(1, NFromInt(n), 0)

FNeg(x) == IF IsZero(x) THEN x ELSE [x EXCEPT !.sg = -x.sg]

\* x + y
FAdd(x, y) ==
  IF IsZero(x) THEN y
  ELSE IF IsZero(y) THEN x
  ELSE IF x.e - y.e > MantBits + 7 THEN x
  ELSE IF y.e - x.e > MantBits + 7 THEN y
  ELSE LET e == IF x.e < y.e THEN x.e ELSE y.e
           a == NShl(x.m, x.e - e)
           b == NShl(y.m, y.e - e)
           c == NCmp(a, b)
       IN  IF x.sg = y.sg THEN Round(x.sg, NAdd(a, b), e)
           ELSE IF c = 0 THEN Zero
           ELSE IF c > 0 THEN Round(x.sg, NSub(a, b), e)
           ELSE Round(y.sg, NSub(b, a), e)

\* x - y
FSub(x, y) == FAdd(x, FNeg(y))

\* x * y
FMul(x, y) ==
  IF IsZero(x) \/ IsZero(y) THEN Zero
  ELSE Round(x.sg * y.sg, NMul(x.m, y.m), x.e + y.e)

\* x / y for y # 0: the quotient to 58 bits and a sticky bit, then rounded
FDiv(x, y) ==
  IF IsZero(x) THEN Zero
  ELSE LET d == NDivMod(NShl(x.m, MantBits + 4), y.m)
           N == NAdd(NShl(d.q, 1), IF d.r = <<>> THEN <<>> ELSE <<1>>)
       IN  Round(x.sg * y.sg, N, x.e - y.e - (MantBits + 5))

\* -1, 0, 1 as x < y, x = y, x > y
FCmp(x, y) ==
  LET mag == IF x.e < y.e THEN -1 ELSE IF x.e > y.e THEN 1 ELSE NCmp(x.m, y.m)
  IN  IF IsZero(x) THEN (IF IsZero(y) THEN 0 ELSE -y.sg)
      ELSE IF IsZero(y) THEN x.sg
      ELSE IF x.sg # y.sg THEN x.sg
      ELSE x.sg * mag

FLt(x, y) == FCmp(x, y) < 0
FLe(x, y) == FCmp(x, y) <= 0
FAbs(x) == [x EXCEPT !.sg = 1]

One == FromInt(1)

(* x ** n goes to the C library's pow(x, n).  The exact power m^n of the   *)
(* mantissa is enclosed in [lo * 2^e, hi * 2^e], computed by squaring and  *)
(* cut to PowBits bits after each product (lo cut down, hi cut up).        *)

PowBits == 120

Cut(I) ==
  LET s == NBits(I.hi) - PowBits
  IN  IF s <= 0 THEN I
      ELSE LET h == NShr(I.hi, s)
           IN  [lo |-> NShr(I.lo, s),
                hi |-> IF NShl(h, s) = I.hi THEN h ELSE NAdd(h, <<1>>),
                e  |-> I.e + s]

IMul(A, B) == Cut([lo |-> NMul(A.lo, B.lo), hi |-> NMul(A.hi, B.hi), e |-> A.e + B.e])

RECURSIVE PowI(_, _)
PowI(m, n) ==
  IF n = 1 THEN [lo |-> m, hi |-> m, e |-> 0]
  ELSE LET k == IF n % 2 = 0 THEN n \div 2 ELSE n - 1
           h == PowI(m, k)
       IN  \* (the test makes TLC compute h before, not inside, the product)
           IF h.e < 0 THEN h
           ELSE IF k = n - 1 THEN IMul(h, [lo |-> m, hi |-> m, e |-> 0])
           ELSE IMul(h, h)

\* the floats pow(x, n) may return for x > 0 and an int n >= 0: the exact
\* power when it is a float, else either neighbour of it
FPow(x, n) ==
  IF n = 0 THEN {One}
  ELSE LET I  == PowI(x.m, n)
           lo == RoundDown(I.lo, I.e + n * x.e)
           hi == RoundUp(I.hi, I.e + n * x.e)
       IN  IF lo = hi THEN {lo} ELSE {lo, Succ(lo), hi}

---------------------------------------------------------------------------
(* The program.                                                            *)

VARIABLES
  principal, annual_rate, years, bonus_principal, bonus_frequency,
  pc, exception,
  monthly_rate, num_payments, monthly_payment, bonus_payment,
  schedule, remaining_balance, bonus_remaining, monthly_remaining, month,
  bonus_principal_payment

args == <<principal, annual_rate, years, bonus_principal, bonus_frequency>>
locals == <<monthly_rate, num_payments, monthly_payment, bonus_payment,
            schedule, remaining_balance, bonus_remaining, monthly_remaining, month,
            bonus_principal_payment>>
vars == <<args, pc, exception, locals>>

\* min(a, b) and max(0, x) of Python: the first argument unless the second
\* is strictly smaller (larger)
PyMin(a, b) == IF FLt(b, a) THEN b ELSE a
PyMax0(x) == IF FLt(Zero, x) THEN x ELSE Zero

\* monthly_rate = annual_rate / 100 / 12
MonthlyRate(rate) == FDiv(FDiv(rate, FromInt(100)), FromInt(12))

\* variant: one period too many
NumPayments_OneMore(y) == y * 12 + 1

\* num_payments = years * 12
NumPayments(y) == y * 12

Raised(name) == [exception |-> name, monthly_payment |-> Zero, bonus_payment |-> Zero]
Returned(mp, bp) == [exception |-> "none", monthly_payment |-> mp, bonus_payment |-> bp]

\* variant: the monthly track is not reduced by the bonus portion
ZeroRatePayment_WholePrincipal(monthly_principal, n, p_bonus, y, freq) ==
  IF n = 0 \/ (p_bonus > 0 /\ y * freq = 0)
  THEN Raised("ZeroDivisionError")
  ELSE Returned(FDiv(FromInt(monthly_principal + p_bonus), FromInt(n)),
                IF p_bonus > 0 THEN FDiv(FromInt(p_bonus), FromInt(y * freq)) ELSE Zero)

\* the branch monthly_rate == 0 of calculate_monthly_payment (int / int)
ZeroRatePayment(monthly_principal, n, p_bonus, y, freq) ==
  IF n = 0 \/ (p_bonus > 0 /\ y * freq = 0)
  THEN Raised("ZeroDivisionError")
  ELSE Returned(FDiv(FromInt(monthly_principal), FromInt(n)),
                IF p_bonus > 0 THEN FDiv(FromInt(p_bonus), FromInt(y * freq)) ELSE Zero)

\* variant: the denominator lacks the - 1
LevelPayment_NoMinusOne(amount, rate, pw) == FDiv(FMul(amount, FMul(rate, pw)), pw)

\* amount * (rate * pw) / (pw - 1), pw the value of (1 + rate) ** periods
LevelPayment(amount, rate, pw) == FDiv(FMul(amount, FMul(rate, pw)), FSub(pw, One))

\* the general branch of calculate_monthly_payment, given the two powers
AnnuityPayment(monthly_principal, rate, p_bonus, freq, pw, bpw) ==
  IF IsZero(FSub(pw, One)) \/ (p_bonus > 0 /\ IsZero(FSub(bpw, One)))
  THEN Raised("ZeroDivisionError")
  ELSE Returned(LevelPayment(FromInt(monthly_principal), rate, pw),
                IF p_bonus > 0
                THEN LevelPayment(FromInt(p_bonus), FMul(rate, FromInt(freq)), bpw)
                ELSE Zero)

\* calculate_monthly_payment: the outcomes it may have (one per value pow
\* may return)
calculate_monthly_payment(p, rate, y, p_bonus, freq) ==
  LET m_rate            == MonthlyRate(rate)
      n                 == NumPayments(y)
      monthly_principal == p - p_bonus
  IN  IF IsZero(m_rate)
      THEN {ZeroRatePayment(monthly_principal, n, p_bonus, y, freq)}
      ELSE {AnnuityPayment(monthly_principal, m_rate, p_bonus, freq, pw, bpw) :
              pw  \in FPow(FAdd(One, m_rate), n),
              bpw \in IF p_bonus > 0
                      THEN FPow(FAdd(One, FMul(m_rate, FromInt(freq))), y)
                      ELSE {One}}

\* bonus_months
BonusMonths(freq) == IF freq = 2 THEN {6, 12} ELSE IF freq = 1 THEN {12} ELSE {}

\* is_bonus_month = (month % 12) in bonus_months
IsBonusMonth(mo, freq) == (mo % 12) \in BonusMonths(freq)

\* monthly_interest = monthly_remaining * monthly_rate
MonthlyInterest(remaining, rate) == FMul(remaining, rate)

\* variant: the interest is not taken out of the payment
MonthlyPrincipalPayment_NoInterest(payment, interest) == payment

\* monthly_principal_payment = monthly_payment - monthly_interest
MonthlyPrincipalPayment(payment, interest) == FSub(payment, interest)

\* variant: the installment is not capped at what is left
BonusPrincipalPayment_Uncapped(payment, interest, remaining) == FSub(payment, interest)

\* bonus_principal_payment = min(bonus_payment - bonus_interest, bonus_remaining)
BonusPrincipalPayment(payment, interest, remaining) ==
  PyMin(FSub(payment, interest), remaining)

\* variant: the payment is added to the balance
PayDown_Adds(remaining, principal_payment) == FAdd(remaining, principal_payment)

\* monthly_remaining -= monthly_principal_payment
PayDown(remaining, principal_payment) == FSub(remaining, principal_payment)

\* calculate_amortization_schedule up to the loop: the rate, the call of
\* calculate_monthly_payment (which may raise), the three balances
Call ==
  /\ pc = "start"
  /\ \E r \in calculate_monthly_payment(principal, annual_rate, years,
                                        bonus_principal, bonus_frequency) :
       IF r.exception # "none"
       THEN /\ pc' = "raised"
            /\ exception' = r.exception
            /\ monthly_rate' = MonthlyRate(annual_rate)
            /\ num_payments' = NumPayments(years)
            /\ UNCHANGED <<monthly_payment, bonus_payment, schedule, remaining_balance,
                           bonus_remaining, monthly_remaining, month,
                           bonus_principal_payment>>
       ELSE /\ pc' = "loop"
            /\ monthly_rate' = MonthlyRate(annual_rate)
            /\ num_payments' = NumPayments(years)
            /\ monthly_payment' = r.monthly_payment
            /\ bonus_payment' = r.bonus_payment
            /\ schedule' = <<>>
            /\ remaining_balance' = FromInt(principal)
            /\ bonus_remaining' = FromInt(bonus_principal)
            /\ monthly_remaining' = FromInt(principal - bonus_principal)
            /\ UNCHANGED <<exception, month, bonus_principal_payment>>
  /\ UNCHANGED args

\* one pass of `for month in range(1, num_payments + 1)`; each local of the
\* loop body is bound once, in the order the body assigns it
Period ==
  /\ pc = "loop"
  /\ month < num_payments
  /\ \E mo \in {month + 1} :
     \E pays_bonus \in {IsBonusMonth(mo, bonus_frequency) /\ FLt(Zero, bonus_remaining)} :
     \E monthly_interest \in {MonthlyInterest(monthly_remaining, monthly_rate)} :
     \E monthly_principal_payment \in
          {MonthlyPrincipalPayment(monthly_payment, monthly_interest)} :
     \E bonus_interest \in
          {IF pays_bonus THEN FMul(bonus_remaining, monthly_rate) ELSE Zero} :
     \E bpp \in
          {IF pays_bonus
           THEN BonusPrincipalPayment(bonus_payment, bonus_interest, bonus_remaining)
           ELSE Zero} :
     \E bonus_payment_this_month \in
          {IF pays_bonus THEN FAdd(bonus_interest, bpp) ELSE Zero} :
     \E new_bonus_remaining \in
          {IF pays_bonus THEN PayDown(bonus_remaining, bpp) ELSE bonus_remaining} :
     \E new_monthly_remaining \in {PayDown(monthly_remaining, monthly_principal_payment)} :
     \E new_remaining_balance \in {FAdd(new_monthly_remaining, new_bonus_remaining)} :
       /\ month' = mo
       /\ bonus_principal_payment' = bpp
       /\ bonus_remaining' = new_bonus_remaining
       /\ monthly_remaining' = new_monthly_remaining
       /\ remaining_balance' = new_remaining_balance
       /\ schedule' = Append(schedule,
            [kaisu      |-> mo,
             hensaigaku |-> FAdd(monthly_payment, bonus_payment_this_month),
             tsukizuki  |-> monthly_payment,
             shoyo      |-> bonus_payment_this_month,
             gankin     |-> FAdd(monthly_principal_payment, bpp),
             risoku     |-> FAdd(monthly_interest, bonus_interest),
             zandaka    |-> PyMax0(new_remaining_balance)])
  /\ UNCHANGED <<args, pc, exception, monthly_rate, num_payments, monthly_payment,
                 bonus_payment>>

\* the range is exhausted: return pd.DataFrame(schedule)
Return ==
  /\ pc = "loop"
  /\ month >= num_payments
  /\ pc' = "returned"
  /\ UNCHANGED <<args, exception, locals>>

\* main's total_loan_payment from the two payments (use_bonus: the checkbox)
TotalLoanPayment(use_bonus) ==
  LET annual_bonus_payment   == IF use_bonus
                                THEN FMul(bonus_payment, FromInt(bonus_frequency))
                                ELSE Zero
      total_monthly_payments == FMul(FMul(monthly_payment, FromInt(years)), FromInt(12))
      total_bonus_payments   == FMul(annual_bonus_payment, FromInt(years))
  IN  FAdd(total_monthly_payments, total_bonus_payments)

---------------------------------------------------------------------------
(* The arguments the model draws.                                          *)

MaxYears == 2

\* annual_rate in hundredths of a percent: 0 and main's default 1.05
RateCents == {0, 105}
Rate(c) == FDiv(FromInt(c), FromInt(100))

\* a small amount and main's minimum of 100 * 10000
Principals == {100, 100 * 10000}

\* the bonus track: none, a quarter of the principal, all of it
BonusQuarters == {0, 1, 4}

ValidArgs ==
  {<<p, Rate(c), y, (p * k) \div 4, f>> :
     p \in Principals, c \in RateCents, y \in 1..MaxYears,
     k \in BonusQuarters, f \in {1, 2}}

\* arguments outside the documented domain, one field at a time
InvalidArgs ==
  {<<p, Rate(0), 1, 0, 2>> : p \in {0, -100}}
    \cup {<<100, Rate(-105), 1, 0, 2>>}
    \cup {<<100, Rate(c), 0, 0, 2>> : c \in RateCents}
    \cup {<<100, Rate(0), -1, 0, 2>>}
    \cup {<<100, Rate(0), 1, b, 2>> : b \in {-25, 125}}
    \cup {<<100, Rate(0), 1, 25, 3>>}

Args == ValidArgs \cup InvalidArgs

Entry(a) ==
  /\ principal = a[1]
  /\ annual_rate = a[2]
  /\ years = a[3]
  /\ bonus_principal = a[4]
  /\ bonus_frequency = a[5]
  /\ pc = "start"
  /\ exception = "none"
  /\ monthly_rate = Zero
  /\ num_payments = 0
  /\ monthly_payment = Zero
  /\ bonus_payment = Zero
  /\ schedule = <<>>
  /\ remaining_balance = Zero
  /\ bonus_remaining = Zero
  /\ monthly_remaining = Zero
  /\ month = 0
  /\ bonus_principal_payment = Zero

Init == \E a \in Args : Entry(a)

Next == Call \/ Period \/ Return

Spec == Init /\ [][Next]_vars

\* main's defaults: 2000 * 10000 yen at 1.05 % over 25 years, no bonus
InitA == Entry(<<2000 * 10000, Rate(105), 25, 0, 2>>)

SpecA == InitA /\ [][Next]_vars

---------------------------------------------------------------------------
(* Properties.                                                             *)

\* the documented domain of the arguments
ValidTerms ==
  /\ principal > 0
  /\ ~FLt(annual_rate, Zero)
  /\ years >= 1
  /\ bonus_principal >= 0
  /\ bonus_principal <= principal
  /\ (bonus_principal > 0 => bonus_frequency \in {1, 2})

Running == pc \in {"loop", "returned"}

RECURSIVE Sum(_, _, _, _)
\* rows[lo][col] + ... + rows[hi][col], in floats
Sum(rows, col, lo, hi) ==
  IF lo > hi THEN Zero
  ELSE IF lo = hi THEN rows[lo][col]
  ELSE FAdd(Sum(rows, col, lo, (lo + hi) \div 2),
            Sum(rows, col, (lo + hi) \div 2 + 1, hi))

Column(col) == Sum(schedule, col, 1, Len(schedule))

\* "up to rounding": within a millionth of the reference amount
Millionth(x) == FDiv(FAbs(x), FromInt(1000000))
Close(x, y) == FLe(FAbs(FSub(x, y)), Millionth(y))

\* x formats to the integer n with no decimals: n - 1/2 < x < n + 1/2
RoundsTo(x, n) ==
  /\ FLt(FDiv(FromInt(2 * n - 1), FromInt(2)), x)
  /\ FLt(x, FDiv(FromInt(2 * n + 1), FromInt(2)))

\* the calendar rule of the documentation: months 6 and 12 of each year for
\* two bonuses a year, month 12 for one
CalendarRule(p, freq) ==
  \/ freq = 2 /\ p % 12 \in {6, 0}
  \/ freq = 1 /\ p % 12 = 0

\* C1: a period p carries bonus activity (a non-zero bonus payment) exactly
\* when the bonus track is still open at its start and p is month 6 or 12 of
\* a year for two bonuses a year, month 12 of a year for one bonus a year; so
\* period 12 of a one-year loan with two bonuses is a bonus period.
C1_BonusPeriods ==
  [][(ValidTerms /\ month' = month + 1)
       => (~IsZero(schedule'[month'].shoyo)
             <=> (FLt(Zero, bonus_remaining)
                    /\ CalendarRule(month', bonus_frequency)))]_vars

\* C2: with a bonus portion, the principal portions of the returned schedule
\* add up to the whole principal (up to rounding) and the bonus track ends at
\* exactly 0.
C2_BonusRepaid ==
  (ValidTerms /\ pc = "returned" /\ bonus_principal > 0)
    => /\ Close(Column("gankin"), FromInt(principal))
       /\ IsZero(bonus_remaining)

\* C3: without a bonus portion, the last row of the returned schedule has a
\* balance of 0 and the principal portions add up to the principal, both up to
\* rounding.
C3_FullyRepaid ==
  (ValidTerms /\ pc = "returned" /\ bonus_principal = 0)
    => /\ FLe(schedule[Len(schedule)].zandaka, Millionth(FromInt(principal)))
       /\ Close(Column("gankin"), FromInt(principal))

C3_Witness ==
  /\ ValidTerms /\ pc = "returned" /\ bonus_principal = 0
  /\ ~IsZero(annual_rate)
  /\ Len(schedule) = 12 * MaxYears
  /\ FLt(Zero, schedule[1].risoku)

\* C4: arguments outside the documented domain make the call fail with
\* InvalidTermsError before any row is produced.
C4_InvalidTermsRejected ==
  ~ValidTerms
    => /\ pc \in {"start", "raised"}
       /\ (pc = "raised" => exception = "InvalidTermsError")
       /\ schedule = <<>>

\* C5: for valid arguments the call does not fail, the rows are numbered
\* 1, 2, ... in order, the loop never runs past years * 12 periods, and the
\* returned schedule has exactly years * 12 rows, even when the balance
\* reaches 0 earlier.
C5_RowCount ==
  ValidTerms
    => /\ pc # "raised"
       /\ Len(schedule) = month
       /\ month <= years * 12
       /\ \A i \in 1..Len(schedule) : schedule[i].kaisu = i
       /\ (pc = "returned" => Len(schedule) = years * 12)

C5_Witness ==
  /\ ValidTerms /\ pc = "returned"
  /\ Len(schedule) = 12 * MaxYears
  /\ \E i \in 1..(Len(schedule) - 1) : IsZero(schedule[i].zandaka)

\* C6: for valid arguments the balance column never increases from one row
\* to the next, and the first row's balance is at most the principal.
C6_BalanceNonIncreasing ==
  ValidTerms
    => \A i \in 1..Len(schedule) :
         FLe(schedule[i].zandaka,
             IF i = 1 THEN FromInt(principal) ELSE schedule[i - 1].zandaka)

C6_Witness ==
  /\ ValidTerms /\ pc = "returned"
  /\ bonus_principal > 0 /\ bonus_frequency = 2 /\ ~IsZero(annual_rate)
  /\ \A i \in 2..Len(schedule) : FLt(schedule[i].zandaka, schedule[i - 1].zandaka)

\* C7: at a rate of 0 the monthly payment is (principal - bonus_principal) /
\* (years * 12), the bonus payment is bonus_principal / (years *
\* bonus_frequency) when there is a bonus portion and 0 otherwise, and every
\* row's interest is 0.
C7_ZeroRate ==
  (ValidTerms /\ IsZero(annual_rate) /\ Running)
    => /\ monthly_payment
            = FDiv(FromInt(principal - bonus_principal), FromInt(years * 12))
       /\ bonus_payment
            = (IF bonus_principal > 0
                 THEN FDiv(FromInt(bonus_principal),
                           FromInt(years * bonus_frequency))
                 ELSE Zero)
       /\ \A i \in 1..Len(schedule) : IsZero(schedule[i].risoku)

C7_Witness ==
  /\ ValidTerms /\ IsZero(annual_rate) /\ pc = "returned"
  /\ bonus_principal > 0 /\ bonus_principal < principal
  /\ bonus_frequency = 1
  /\ Len(schedule) = 12 * MaxYears

\* C8 as written: for 20,000,000 yen at 1.05 % over 25 years without bonus
\* the monthly payment rounds to 76,461 yen, the schedule has 300 rows and
\* the last balance is 0.
C8_ScenarioA_Original ==
  /\ (pc # "start" => RoundsTo(monthly_payment, 76461))
  /\ (pc = "returned"
        => Len(schedule) = 300 /\ IsZero(schedule[300].zandaka))

\* C8 amended: for 20,000,000 yen at 1.05 % over 25 years without bonus the
\* monthly payment rounds to 75,828 yen, the schedule has 300 rows and the
\* last balance is 0.
C8_ScenarioA ==
  /\ (pc # "start" => RoundsTo(monthly_payment, 75828))
  /\ (pc = "returned"
        => Len(schedule) = 300 /\ IsZero(schedule[300].zandaka))

C8_Witness ==
  /\ pc = "returned"
  /\ principal = 2000 * 10000 /\ years = 25 /\ bonus_principal = 0
  /\ Len(schedule) = 300

\* C9 as written: for valid arguments, after every period monthly_remaining
\* is at least 0, bonus_remaining lies between 0 and bonus_principal, the
\* bonus principal portion of a period is at most the bonus_remaining the
\* period started with, and the reported balance is never negative.
C9_Balances_Original ==
  /\ [](ValidTerms /\ Running
          => /\ FLe(Zero, monthly_remaining)
             /\ FLe(Zero, bonus_remaining)
             /\ FLe(bonus_remaining, FromInt(bonus_principal))
             /\ \A i \in 1..Len(schedule) : FLe(Zero, schedule[i].zandaka))
  /\ [][(ValidTerms /\ month' = month + 1)
          => FLe(bonus_principal_payment', bonus_remaining)]_vars

\* C9 amended: for valid arguments, after every period bonus_remaining lies
\* between 0 and bonus_principal, the bonus principal portion of a period is
\* at most the bonus_remaining the period started with, and the reported
\* balance is never negative (monthly_remaining itself is not bounded below:
\* rounding can leave it under 0).
C9_Balances ==
  /\ [](ValidTerms /\ Running
          => /\ FLe(Zero, bonus_remaining)
             /\ FLe(bonus_remaining, FromInt(bonus_principal))
             /\ \A i \in 1..Len(schedule) : FLe(Zero, schedule[i].zandaka))
  /\ [][(ValidTerms /\ month' = month + 1)
          => FLe(bonus_principal_payment', bonus_remaining)]_vars

\* the cap was needed: a bonus installment closed the bonus track while the
\* level installment would have paid more than was left
C9_Witness ==
  /\ ValidTerms /\ pc = "loop"
  /\ bonus_principal > 0
  /\ FLt(Zero, bonus_principal_payment)
  /\ IsZero(bonus_remaining)
  /\ FLt(schedule[month].shoyo, bonus_payment)

\* C10: the total repayment shown by main, monthly_payment * years * 12 plus,
\* with a bonus, bonus_payment * years * bonus_frequency, equals the sum of
\* the payment column of the returned schedule, up to rounding.
C10_TotalMatchesSchedule ==
  (ValidTerms /\ pc = "returned")
    => \A use_bonus \in BOOLEAN :
         (use_bonus \/ (bonus_principal = 0 /\ bonus_frequency = 2))
           => Close(TotalLoanPayment(use_bonus), Column("hensaigaku"))

=============================================================================
